---- MODULE Spec2Model ----
(***************************************************************************)
(* Alpha-Pulse Pro v2.0: the quantitative core (MathPro, PatternEngine,    *)
(* BrainEngine.prepareTensors / predict) and the click handler of main.js. *)
(*                                                                         *)
(* Numbers.  A JavaScript number that is a price or an indicator value is  *)
(* a fixed-point integer: the integer v stands for v / Unit rupees, where  *)
(* Unit == Cent * Scale (Cent: the two decimals the data engine keeps,     *)
(* Scale: extra fractional digits for the indicator arithmetic).  A        *)
(* quotient that is not exact is rounded down to the next multiple of      *)
(* 1 / Unit, where the program rounds to the nearest double.               *)
(*                                                                         *)
(* Values.  An array slot is a record [k, v]: k is "number", "null" (the   *)
(* absent marker the library fills its series with), "undefined" (a hole   *)
(* or a read outside the array) or "NaN".  Arithmetic and comparison       *)
(* coerce as JavaScript does: null to 0, undefined to NaN.                 *)
(*                                                                         *)
(* Arrays.  A JavaScript array is a sequence; JavaScript index i is        *)
(* position i + 1.                                                         *)
(***************************************************************************)
EXTENDS Integers, Sequences, FiniteSets, TLC

\* ------------------------------------------------------------------ bounds
\* Longest price / candle history an input may have.
MaxLen == 37
\* Largest EMA period tried on its own (MACD always uses 12, 26, 9).
MaxPeriod == 5
\* Fractional fixed-point digits below one paise.
Scale == 10
\* Confidence is counted in 1 / ConfUnit percent, a loss in 1 / (1000 * ConfUnit).
ConfUnit == 10
\* Largest loss below 1 that predict is tried on, in loss units.
MaxLoss == 600
\* Price levels of the candles given to PatternEngine.analyze.
PriceLevels == 7

\* Two decimals per rupee: parseFloat(x.toFixed(2)).
Cent == 100
Unit == Cent * Scale

\* ------------------------------------------------------------------ values
Null == [k |-> "null", v |-> 0]
Undef == [k |-> "undefined", v |-> 0]
NaN == [k |-> "NaN", v |-> 0]
Num(n) == [k |-> "number", v |-> n]

IsNum(x) == x.k = "number"
\* What the specification calls "absent": not a number the program computed.
IsAbsent(x) == x.k # "number"

\* ToNumber: null is 0, undefined is NaN.
ToNumber(x) ==
    IF x.k = "null" THEN Num(0)
    ELSE IF x.k = "undefined" THEN NaN
    ELSE x

Add(a, b) ==
    LET x == ToNumber(a)
        y == ToNumber(b)
    IN  IF x.k = "NaN" \/ y.k = "NaN" THEN NaN ELSE Num(x.v + y.v)

Sub(a, b) ==
    LET x == ToNumber(a)
        y == ToNumber(b)
    IN  IF x.k = "NaN" \/ y.k = "NaN" THEN NaN ELSE Num(x.v - y.v)

\* a / n for a positive integer n.
DivInt(a, n) ==
    LET x == ToNumber(a)
    IN  IF x.k = "NaN" THEN NaN ELSE Num(x.v \div n)

\* a < b and a > b, false when either side is NaN.
Lt(a, b) ==
    LET x == ToNumber(a)
        y == ToNumber(b)
    IN  x.k = "number" /\ y.k = "number" /\ x.v < y.v

Gt(a, b) == Lt(b, a)

Le(a, b) ==
    LET x == ToNumber(a)
        y == ToNumber(b)
    IN  x.k = "number" /\ y.k = "number" /\ x.v <= y.v

Ge(a, b) == Le(b, a)

\* arr[i], undefined outside the array.
At(arr, i) == IF i < 0 \/ i >= Len(arr) THEN Undef ELSE arr[i + 1]

\* arr[i] = val; a write past the end grows the array, leaving holes.
ArraySet(arr, i, val) ==
    IF i < Len(arr) THEN [arr EXCEPT ![i + 1] = val]
    ELSE arr \o [j \in 1..(i - Len(arr)) |-> Undef] \o <<val>>

\* new Array(n).fill(null)
NullArray(n) == [j \in 1..n |-> Null]

\* arr.slice(from, to) for 0 <= from <= to.
Slice(arr, from, to) ==
    LET hi == IF to > Len(arr) THEN Len(arr) ELSE to
    IN  IF from >= hi THEN <<>> ELSE SubSeq(arr, from + 1, hi)

\* for (let i = from; i < to; i++) acc = Step(i, acc).  The range is split in
\* halves so that the nesting stays logarithmic; the test on half makes the first
\* half's result a value before the second half starts.
RECURSIVE For(_, _, _, _)
For(Step(_, _), from, to, acc) ==
    IF from >= to THEN acc
    ELSE IF to - from = 1 THEN Step(from, acc)
    ELSE LET mid == (from + to) \div 2
             half == For(Step, from, mid, acc)
         IN  IF half = half THEN For(Step, mid, to, half) ELSE half

\* s.reduce((a, b) => a + b, 0)
SumSeq(s) == For(LAMBDA i, a : Add(a, At(s, i)), 0, Len(s), Num(0))

\* Math.sqrt on a non-negative fixed-point square, rounded down.
RECURSIVE SqrtSearch(_, _, _)
SqrtSearch(n, lo, hi) ==
    IF hi - lo <= 1 THEN lo
    ELSE LET mid == (lo + hi) \div 2
         IN  IF mid * mid <= n THEN SqrtSearch(n, mid, hi) ELSE SqrtSearch(n, lo, mid)

ISqrt(n) == SqrtSearch(n, 0, IF n < 46340 THEN n + 1 ELSE 46340)

\* ------------------------------------------------------------------ MathPro
calculateSMA(data, period) ==
    For(LAMBDA i, sma :
            ArraySet(sma, i, DivInt(SumSeq(Slice(data, i - period + 1, i + 1)), period)),
        period - 1, Len(data), NullArray(Len(data)))

\* initialSum after the loop over i = 0 .. period-1 (data[i] is undefined past the end).
InitialSum(data, period) == For(LAMBDA i, sum : Add(sum, At(data, i)), 0, period, Num(0))

\* data[i] * k + ema[i-1] * (1 - k) with k = 2 / (period + 1).
Smooth(d, e, period) ==
    LET x == ToNumber(d)
        y == ToNumber(e)
    IN  IF x.k = "NaN" \/ y.k = "NaN" THEN NaN
        ELSE Num((2 * x.v + (period - 1) * y.v) \div (period + 1))

\* ema after "ema[period - 1] = initialSum / period".
EMASeed(data, period) ==
    ArraySet(NullArray(Len(data)), period - 1, DivInt(InitialSum(data, period), period))

calculateEMA(data, period) ==
    For(LAMBDA i, ema : ArraySet(ema, i, Smooth(At(data, i), At(ema, i - 1), period)),
        period, Len(data), EMASeed(data, period))

\* Math.pow(price - mean, 2)
SquaredDiff(price, mean) ==
    LET d == Sub(price, mean)
    IN  IF d.k = "NaN" THEN NaN ELSE Num(d.v * d.v)

Variance(slice, mean, period) ==
    DivInt(For(LAMBDA j, sum : Add(sum, SquaredDiff(At(slice, j), mean)),
               0, Len(slice), Num(0)),
           period)

Sqrt(x) == IF ToNumber(x).k = "NaN" THEN NaN ELSE Num(ISqrt(ToNumber(x).v))

calculateStdDev(data, period, smaArray) ==
    For(LAMBDA i, stdDev :
            ArraySet(stdDev, i,
                     Sqrt(Variance(Slice(data, i - period + 1, i + 1), At(smaArray, i), period))),
        period - 1, Len(data), NullArray(Len(data)))

\* x * n for an integer n.
MulInt(x, n) == IF ToNumber(x).k = "NaN" THEN NaN ELSE Num(ToNumber(x).v * n)

BBPeriod == 20
BBMultiplier == 2

calculateBollingerBandsWith(prices, period, multiplier) ==
    LET sma == calculateSMA(prices, period)
        stdDev == calculateStdDev(prices, period, sma)
        blank == [upperBand |-> NullArray(Len(prices)), lowerBand |-> NullArray(Len(prices))]
        bands == For(LAMBDA i, b :
                         [upperBand |-> ArraySet(b.upperBand, i,
                              Add(At(sma, i), MulInt(At(stdDev, i), multiplier))),
                          lowerBand |-> ArraySet(b.lowerBand, i,
                              Sub(At(sma, i), MulInt(At(stdDev, i), multiplier)))],
                     period - 1, Len(prices), blank)
    IN  [upperBand |-> bands.upperBand, middleBand |-> sma, lowerBand |-> bands.lowerBand]

\* The call with the default period = 20, multiplier = 2.
calculateBollingerBands(prices) == calculateBollingerBandsWith(prices, BBPeriod, BBMultiplier)

FastPeriod == 12
SlowPeriod == 26
SignalPeriod == 9

\* A re-alignment that starts one index late.
RealignStartLate(slowPeriod, signalPeriod) == slowPeriod - 1 + signalPeriod

\* Where the re-alignment loop starts on the time axis.
RealignStart(slowPeriod, signalPeriod) == slowPeriod - 1 + signalPeriod - 1

\* A re-alignment that copies the signal by the time index itself.
RealignStepNaive(macdLine, rawSignal, signalPeriod, i, acc) ==
    [signalLine |-> ArraySet(acc.signalLine, i, At(rawSignal, i)),
     histogram |-> ArraySet(acc.histogram, i, Sub(At(macdLine, i), At(rawSignal, i))),
     signalIndex |-> acc.signalIndex + 1]

\* One pass of the re-alignment loop at time index i.
RealignStep(macdLine, rawSignal, signalPeriod, i, acc) ==
    LET sig == At(rawSignal, signalPeriod - 1 + acc.signalIndex)
    IN  [signalLine |-> ArraySet(acc.signalLine, i, sig),
         histogram |-> ArraySet(acc.histogram, i, Sub(At(macdLine, i), sig)),
         signalIndex |-> acc.signalIndex + 1]

\* macdLine.filter(val => val !== null)
ValidMacd(macdLine) == SelectSeq(macdLine, LAMBDA val : val.k # "null")

calculateMACDWith(prices, fastPeriod, slowPeriod, signalPeriod) ==
    LET fastEMA == calculateEMA(prices, fastPeriod)
        slowEMA == calculateEMA(prices, slowPeriod)
        macdLine == For(LAMBDA i, line : ArraySet(line, i, Sub(At(fastEMA, i), At(slowEMA, i))),
                        slowPeriod - 1, Len(prices), NullArray(Len(prices)))
        rawSignal == calculateEMA(ValidMacd(macdLine), signalPeriod)
        blank == [signalLine |-> NullArray(Len(prices)), histogram |-> NullArray(Len(prices)),
                  signalIndex |-> 0]
        aligned == For(LAMBDA i, acc : RealignStep(macdLine, rawSignal, signalPeriod, i, acc),
                       RealignStart(slowPeriod, signalPeriod), Len(prices), blank)
    IN  [macdLine |-> macdLine, signalLine |-> aligned.signalLine,
         histogram |-> aligned.histogram]

\* The call with the default periods 12, 26, 9.
calculateMACD(prices) == calculateMACDWith(prices, FastPeriod, SlowPeriod, SignalPeriod)

\* A guard that lets 34 prices through.
MinStatusPricesLow == 35 - 1

\* Fewest prices generateMarketStatus accepts.
MinStatusPrices == 35

\* The values generateMarketStatus reads from the two indicator results.
OperandsOf(prices, macd, bb) ==
    [lastPrice |-> At(prices, Len(prices) - 1),
     lastMacd |-> At(macd.macdLine, Len(macd.macdLine) - 1),
     lastSignal |-> At(macd.signalLine, Len(macd.signalLine) - 1),
     prevMacd |-> At(macd.macdLine, Len(macd.macdLine) - 2),
     prevSignal |-> At(macd.signalLine, Len(macd.signalLine) - 2),
     lastUpper |-> At(bb.upperBand, Len(bb.upperBand) - 1),
     lastLower |-> At(bb.lowerBand, Len(bb.lowerBand) - 1)]

StatusOperands(prices) ==
    OperandsOf(prices, calculateMACD(prices), calculateBollingerBands(prices))

MacdStatus(o) ==
    IF Lt(o.prevMacd, o.prevSignal) /\ Gt(o.lastMacd, o.lastSignal) THEN "Bullish Cross (Buy)"
    ELSE IF Gt(o.prevMacd, o.prevSignal) /\ Lt(o.lastMacd, o.lastSignal) THEN "Bearish Cross (Sell)"
    ELSE IF Gt(o.lastMacd, o.lastSignal) THEN "Bullish Momentum"
    ELSE IF Lt(o.lastMacd, o.lastSignal) THEN "Bearish Momentum"
    ELSE "Neutral"

BbStatus(o) ==
    IF Ge(o.lastPrice, o.lastUpper) THEN "Overbought (Upper Band)"
    ELSE IF Le(o.lastPrice, o.lastLower) THEN "Oversold (Lower Band)"
    ELSE "In Range"

\* compared: the operands the comparisons read.
StatusFrom(o) ==
    [macdStatus |-> MacdStatus(o), bbStatus |-> BbStatus(o),
     compared |-> <<o.lastMacd, o.lastSignal, o.prevMacd, o.prevSignal,
                    o.lastUpper, o.lastLower>>]

generateMarketStatus(prices) ==
    IF Len(prices) < MinStatusPrices
    THEN [macdStatus |-> "Insufficient Data", bbStatus |-> "Insufficient Data",
          compared |-> <<>>]
    ELSE StatusFrom(StatusOperands(prices))

\* A divisor taken as it is.
OrOneUnguarded(x, one) == x

\* (x || one): the divisor x, or one when x is 0.
OrOne(x, one) == IF x = 0 THEN one ELSE x

\* ------------------------------------------------------------------ PatternEngine
\* A candle is [open, high, low, close, volume]; prices are fixed-point integers.
\* A pattern score is an integer in tenths: 8 is 0.8, ScoreOne is 1.0.
ScoreOne == 10

Abs(x) == IF x < 0 THEN -x ELSE x
Max2(a, b) == IF a > b THEN a ELSE b
Min2(a, b) == IF a < b THEN a ELSE b

\* A Doji rule that takes half of the range instead of a twentieth.
IsDojiHalfRange(bodySize, totalRange) == bodySize * 100 <= totalRange * 50

\* bodySize <= totalRange * 0.05
IsDoji(bodySize, totalRange) == bodySize * 100 <= totalRange * 5

\* current.high - current.low || 1
TotalRange(current) == OrOne(current.high - current.low, Unit)

analyze(ohlcvData) ==
    IF Len(ohlcvData) < 2 THEN [name |-> "Insufficient Data", score |-> 0]
    ELSE
    LET current == ohlcvData[Len(ohlcvData)]
        previous == ohlcvData[Len(ohlcvData) - 1]
        bodySize == Abs(current.open - current.close)
        totalRange == TotalRange(current)
        isBullish == current.close > current.open
        upperWick == IF isBullish THEN current.high - current.close
                     ELSE current.high - current.open
        lowerWick == IF isBullish THEN current.open - current.low
                     ELSE current.close - current.low
        prevIsBullish == previous.close > previous.open
    IN  IF IsDoji(bodySize, totalRange)
        THEN [name |-> "Doji (Indecision)", score |-> 0]
        \* lowerWick >= bodySize * 2 && upperWick <= bodySize * 0.2
        ELSE IF lowerWick >= bodySize * 2 /\ upperWick * 10 <= bodySize * 2
        THEN [name |-> "Hammer (Bullish)", score |-> 8]
        ELSE IF upperWick >= bodySize * 2 /\ lowerWick * 10 <= bodySize * 2
        THEN [name |-> "Shooting Star (Bearish)", score |-> -8]
        ELSE IF /\ isBullish /\ ~prevIsBullish
                /\ current.close > previous.open
                /\ current.open < previous.close
        THEN [name |-> "Bullish Engulfing", score |-> ScoreOne]
        ELSE IF /\ ~isBullish /\ prevIsBullish
                /\ current.open > previous.close
                /\ current.close < previous.open
        THEN [name |-> "Bearish Engulfing", score |-> -ScoreOne]
        \* bodySize >= totalRange * 0.9
        ELSE IF bodySize * 10 >= totalRange * 9
        THEN IF isBullish THEN [name |-> "Strong Bullish Momentum", score |-> 6]
             ELSE [name |-> "Strong Bearish Momentum", score |-> -6]
        ELSE [name |-> "Standard Price Action", score |-> 0]

\* { ...ohlcvData[i], patternName: pattern.name, patternScore: pattern.score }
EnrichedCandle(candle, pattern) ==
    [f \in DOMAIN candle \cup {"patternName", "patternScore"} |->
        IF f = "patternName" THEN pattern.name
        ELSE IF f = "patternScore" THEN pattern.score
        ELSE candle[f]]

\* A window that stops short of candle i.
TrailingWindowStale(ohlcvData, i) == Slice(ohlcvData, Max2(0, i - 2), i)

\* ohlcvData.slice(Math.max(0, i - 1), i + 1)
TrailingWindow(ohlcvData, i) == Slice(ohlcvData, Max2(0, i - 1), i + 1)

enrichDataset(ohlcvData) ==
    For(LAMBDA i, enrichedData :
            Append(enrichedData,
                   EnrichedCandle(ohlcvData[i + 1], analyze(TrailingWindow(ohlcvData, i)))),
        0, Len(ohlcvData), <<>>)

\* ------------------------------------------------------------------ BrainEngine
\* A feature is the exact quotient n / d, kept as the pair; d = 0 marks NaN.
Rat(n, d) == [n |-> n, d |-> d]

\* Math.min(...arr) and Math.max(...arr): Infinity and -Infinity for an empty array.
PosInfinity == [k |-> "Infinity", v |-> 0]
NegInfinity == [k |-> "-Infinity", v |-> 0]

MinOf(arr) ==
    IF arr = <<>> THEN PosInfinity
    ELSE For(LAMBDA i, m : IF m.k = "NaN" \/ ToNumber(At(arr, i)).k = "NaN" THEN NaN
                           ELSE IF Lt(At(arr, i), m) THEN ToNumber(At(arr, i)) ELSE m,
             1, Len(arr), ToNumber(arr[1]))

MaxOf(arr) ==
    IF arr = <<>> THEN NegInfinity
    ELSE For(LAMBDA i, m : IF m.k = "NaN" \/ ToNumber(At(arr, i)).k = "NaN" THEN NaN
                           ELSE IF Gt(At(arr, i), m) THEN ToNumber(At(arr, i)) ELSE m,
             1, Len(arr), ToNumber(arr[1]))

\* (x || 0): null, NaN, undefined and 0 all give 0.
OrZero(x) == IF x.k = "number" THEN x.v ELSE 0

\* macdHist.filter(v => v !== null)
ValidHist(macdHist) == SelectSeq(macdHist, LAMBDA v : v.k # "null")

\* Everything prepareTensors computes before its loops.
ScalingOf(closes, volumes, patterns, macdHist, bbData, validHist) ==
    [closes |-> closes, volumes |-> volumes, patterns |-> patterns,
     macdHist |-> macdHist, upperBand |-> bbData.upperBand, lowerBand |-> bbData.lowerBand,
     minClose |-> MinOf(closes), maxClose |-> MaxOf(closes),
     minVol |-> MinOf(volumes), maxVol |-> MaxOf(volumes),
     minHist |-> IF Len(validHist) > 0 THEN MinOf(validHist) ELSE Num(-Unit),
     maxHist |-> IF Len(validHist) > 0 THEN MaxOf(validHist) ELSE Num(Unit)]

IndicatorsOf(closes, volumes, patterns, macdHist, bbData) ==
    ScalingOf(closes, volumes, patterns, macdHist, bbData, ValidHist(macdHist))

ColumnsOf(closes, volumes, patterns) ==
    IndicatorsOf(closes, volumes, patterns,
                 calculateMACD(closes).histogram, calculateBollingerBands(closes))

Scaling(enrichedData) ==
    ColumnsOf([j \in 1..Len(enrichedData) |-> Num(enrichedData[j].close)],
              [j \in 1..Len(enrichedData) |-> Num(enrichedData[j].volume)],
              [j \in 1..Len(enrichedData) |-> Num(enrichedData[j].patternScore)])

\* (closes[idx] - minClose) / (maxClose - minClose || 1)
NormClose(c, idx) ==
    Rat(At(c.closes, idx).v - c.minClose.v, OrOne(c.maxClose.v - c.minClose.v, Unit))

\* (upper !== null && lower !== null && upper !== lower) ? (close - lower) / (upper - lower) : 0.5
BollingerPosition(close, upper, lower) ==
    IF upper.k # "null" /\ lower.k # "null" /\ upper # lower
    THEN IF upper.k = "number" /\ lower.k = "number"
         THEN Rat(close.v - lower.v, upper.v - lower.v)
         ELSE Rat(0, 0)
    ELSE Rat(1, 2)

\* The 7 features of candle idx.
FeatureVector(c, idx, normSentiment, normUsd) ==
    <<NormClose(c, idx),
      Rat(At(c.volumes, idx).v - c.minVol.v, OrOne(c.maxVol.v - c.minVol.v, 1)),
      Rat(At(c.patterns, idx).v + ScoreOne, 2 * ScoreOne),
      normSentiment,
      normUsd,
      Rat(OrZero(At(c.macdHist, idx)) - c.minHist.v, OrOne(c.maxHist.v - c.minHist.v, Unit)),
      BollingerPosition(At(c.closes, idx), At(c.upperBand, idx), At(c.lowerBand, idx))>>

\* A window that starts one candle late.
WindowIndexLate(i, j) == i + j + 1

\* const idx = i + j
WindowIndex(i, j) == i + j

\* A target taken from the window's own last candle.
TargetIndexEarly(i, timeSteps) == i + timeSteps - 1

\* closes[i + timeSteps]
TargetIndex(i, timeSteps) == i + timeSteps

\* The inner loop: the window that starts at candle i.
BuildWindow(c, i, timeSteps, normSentiment, normUsd) ==
    For(LAMBDA j, window :
            Append(window, FeatureVector(c, WindowIndex(i, j), normSentiment, normUsd)),
        0, timeSteps, <<>>)

\* The outer loop: X and Y.
BuildWindows(c, count, timeSteps, normSentiment, normUsd) ==
    For(LAMBDA i, acc :
            [X |-> Append(acc.X, BuildWindow(c, i, timeSteps, normSentiment, normUsd)),
             Y |-> Append(acc.Y, NormClose(c, TargetIndex(i, timeSteps)))],
        0, count, [X |-> <<>>, Y |-> <<>>])

\* X[X.length - 1]
LastWindow(X) == X[Len(X)]

\* The return statement; X[0][0].length is a TypeError when X is empty.
TensorsFrom(c, built, timeSteps) ==
    IF Len(built.X) = 0 THEN [called |-> TRUE, threw |-> TRUE, error |-> "TypeError"]
    ELSE [called |-> TRUE, threw |-> FALSE,
          tensorX |-> built.X, shapeX |-> <<Len(built.X), timeSteps, Len(built.X[1][1])>>,
          tensorY |-> built.Y, shapeY |-> <<Len(built.Y), 1>>,
          minClose |-> c.minClose, maxClose |-> c.maxClose,
          lastWindow |-> LastWindow(built.X)]

ScaledTensors(c, count, timeSteps, normSentiment, normUsd) ==
    TensorsFrom(c, BuildWindows(c, count, timeSteps, normSentiment, normUsd), timeSteps)

\* globalSentiment and macroUsd are in hundredths.
prepareTensors(enrichedData, globalSentiment, macroUsd, timeSteps) ==
    ScaledTensors(Scaling(enrichedData), Len(enrichedData) - timeSteps, timeSteps,
                  Rat(globalSentiment + Cent, 2 * Cent),
                  Rat(macroUsd - 70 * Cent, (90 - 70) * Cent))

\* a / b > c / d for positive b and d.
RatGt(x, y) == x.n * y.d > y.n * x.d

\* (normalized * (maxClose - minClose)) + minClose, exact.
Denormalize(normalized, minClose, maxClose) ==
    Rat(normalized.n * (maxClose.v - minClose.v) + minClose.v * normalized.d, normalized.d)

\* Math.round on a value counted in 1 / unit.
Round(x, unit) == (2 * x + unit) \div (2 * unit)

\* predictedPrice.toFixed(2): the price in paise, rounded.
ToFixed2(price) == (2 * price.n + price.d * Scale) \div (2 * price.d * Scale)

\* let confidence = Math.max(40, 95 - (finalLoss * 1000))
BaseConfidence(finalLoss) == Max2(40 * ConfUnit, 95 * ConfUnit - finalLoss)

\* Adjustments that also take 10 off a bearish call against a positive pattern.
AdjustedConfidenceSymmetric(base, aiIsBullish, score, sentiment) ==
    base
    + (IF aiIsBullish /\ score > 0 THEN 8 * ConfUnit ELSE 0)
    + (IF ~aiIsBullish /\ score < 0 THEN 8 * ConfUnit ELSE 0)
    - (IF aiIsBullish /\ score < 0 THEN 10 * ConfUnit ELSE 0)
    - (IF ~aiIsBullish /\ score > 0 THEN 10 * ConfUnit ELSE 0)
    + (IF aiIsBullish /\ sentiment * 5 > Cent THEN 5 * ConfUnit ELSE 0)
    + (IF ~aiIsBullish /\ sentiment * 5 < -Cent THEN 5 * ConfUnit ELSE 0)

\* The pattern and sentiment adjustments; score in tenths, sentiment in hundredths.
AdjustedConfidence(base, aiIsBullish, score, sentiment) ==
    base
    + (IF aiIsBullish /\ score > 0 THEN 8 * ConfUnit ELSE 0)
    + (IF ~aiIsBullish /\ score < 0 THEN 8 * ConfUnit ELSE 0)
    - (IF aiIsBullish /\ score < 0 THEN 10 * ConfUnit ELSE 0)
    + (IF aiIsBullish /\ sentiment * 5 > Cent THEN 5 * ConfUnit ELSE 0)
    + (IF ~aiIsBullish /\ sentiment * 5 < -Cent THEN 5 * ConfUnit ELSE 0)

\* A clamp that forgets the ceiling.
ClampFloorOnly(confidence) == Max2(10 * ConfUnit, confidence)

\* confidence = Math.min(98, Math.max(10, confidence))
Clamp(confidence) == Min2(98 * ConfUnit, Max2(10 * ConfUnit, confidence))

\* The result, with the values predict compares (currentPrice, aiIsBullish) beside it.
PredictionFrom(predictedPrice, currentPrice, confidence, recentPattern) ==
    [targetPrice |-> ToFixed2(predictedPrice),
     confidence |-> Round(confidence, ConfUnit),
     reasoning |-> [direction |-> IF RatGt(predictedPrice, currentPrice) THEN "upward move"
                                  ELSE "downward correction",
                    price |-> ToFixed2(predictedPrice),
                    conviction |-> IF confidence > 80 * ConfUnit THEN "high"
                                   ELSE IF confidence < 50 * ConfUnit THEN "low"
                                   ELSE "none",
                    pattern |-> IF confidence > 80 * ConfUnit THEN recentPattern.name ELSE ""],
     currentPrice |-> currentPrice,
     aiIsBullish |-> RatGt(predictedPrice, currentPrice)]

\* The clamp, with the confidence as it was before the clamp kept beside the result.
Clamped(predictedPrice, currentPrice, unclamped, recentPattern) ==
    [unclamped |-> unclamped]
        @@ PredictionFrom(predictedPrice, currentPrice, Clamp(unclamped), recentPattern)

Scored(predictedPrice, currentPrice, finalLoss, recentPattern, sentiment) ==
    Clamped(predictedPrice, currentPrice,
            AdjustedConfidence(BaseConfidence(finalLoss),
                               RatGt(predictedPrice, currentPrice),
                               recentPattern.score, sentiment),
            recentPattern)

\* normalizedPrediction is what model.predict returned for lastWindow.
predict(normalizedPrediction, lastWindow, minClose, maxClose, finalLoss, recentPattern, sentiment) ==
    Scored(Denormalize(normalizedPrediction, minClose, maxClose),
           Denormalize(lastWindow[Len(lastWindow)][1], minClose, maxClose),
           finalLoss, recentPattern, sentiment)

\* ------------------------------------------------------------------ inputs
\* Price histories the inputs are drawn from: close of candle i, in fixed point.
Shapes == {"flat", "up", "down", "zig", "wave"}
BasePrice == 100 * Unit
Paise == Scale

CloseAt(shape, i) ==
    IF shape = "flat" THEN BasePrice
    ELSE IF shape = "up" THEN BasePrice + 2 * i * Paise
    ELSE IF shape = "down" THEN BasePrice - 2 * i * Paise
    ELSE IF shape = "zig" THEN BasePrice + (((i * i + 3 * i) % 7) - 3) * 5 * Paise
    ELSE BasePrice + (IF (i % 16) < 8 THEN (i % 16) ELSE 16 - (i % 16)) * 6 * Paise

PriceSeries(shape, n) == [j \in 1..n |-> Num(CloseAt(shape, j - 1))]

\* Candle i of a history: it opens at the previous close; wicks and volume vary with i.
OhlcvAt(shape, i) ==
    LET c == CloseAt(shape, i)
        o == IF i = 0 THEN c ELSE CloseAt(shape, i - 1)
    IN  [open |-> o, close |-> c,
         high |-> Max2(o, c) + (i % 3) * Paise,
         low |-> Min2(o, c) - ((i + 1) % 2) * 2 * Paise,
         volume |-> IF shape = "flat" THEN 1000 ELSE 1000 + 100 * ((3 * i) % 5)]

Ohlcv(shape, n) == [j \in 1..n |-> OhlcvAt(shape, j - 1)]

\* What fetchNewsSentiment and fetchMacroEnvironment resolve to, in hundredths:
\* the fallbacks 0.15 and 83.00, and one fetched value each.
Sentiments == {15, 50}
UsdRates == {8300}

\* Final losses of model.fit (in loss units) and outputs of model.predict.
Losses == {0, 10 * ConfUnit, 55 * ConfUnit}
Predictions == {Rat(1, 4), Rat(3, 4), Rat(5, 4)}

\* Candles PatternEngine.analyze is given: prices on a 5-paise grid around 100.00.
PriceGrid == {BasePrice - 10 * Paise + 5 * Paise * g : g \in 0..(PriceLevels - 1)}

GridCandles ==
    {[open |-> o, high |-> h, low |-> l, close |-> c, volume |-> 1000] :
        <<o, c, h, l>> \in {q \in PriceGrid \X PriceGrid \X PriceGrid \X PriceGrid :
                               q[3] >= Max2(q[1], q[2]) /\ q[4] <= Min2(q[1], q[2])}}

\* Previous candles: analyze reads only their open and close.
GridBodies ==
    {[open |-> o, high |-> Max2(o, c), low |-> Min2(o, c), close |-> c, volume |-> 1000] :
        o \in PriceGrid, c \in PriceGrid}

\* ------------------------------------------------------------------ state
VARIABLES
    mathPc,     \* "input", or the MathPro function that was applied
    prices,     \* the price series given to MathPro
    period,     \* the period given to calculateEMA
    mathOut,    \* what the applied function returned
    patPc,      \* "input" or "analyze"
    patIn,      \* the candle window given to PatternEngine.analyze
    patOut,     \* what analyze returned
    predPc,     \* "input" or "predict"
    predIn,     \* the arguments given to BrainEngine.predict
    predOut,    \* what predict returned
    pc,         \* the click handler: "idle", "ingesting" (awaiting getMarketMatrix),
                \* "training" (awaiting BrainEngine.train)
    inFlight,   \* handler runs that have started and not ended
    btnDisabled, \* elements.btn.disabled
    status,     \* elements.status.innerText
    matrix,     \* the handler's locals, kept until the next click: matrix,
    enrichedData, \* enrichedData,
    marketStatus, \* marketStatus,
    prep,       \* prep (its tensors emptied once train has disposed of them),
    prediction, \* prediction
    request,    \* the arguments given to getMarketMatrix
    fetches,    \* the three promises getMarketMatrix awaits together, each with the
                \* response its fetcher got
    matrixPromise \* the promise getMarketMatrix returned

mathVars == <<mathPc, prices, period, mathOut>>
patVars == <<patPc, patIn, patOut>>
predVars == <<predPc, predIn, predOut>>
locals == <<matrix, enrichedData, marketStatus, prep, prediction>>
mainVars == <<pc, inFlight, btnDisabled, status, matrix, enrichedData, marketStatus, prep, prediction>>
dataVars == <<request, fetches, matrixPromise>>
vars == <<mathPc, prices, period, mathOut, patPc, patIn, patOut, predPc, predIn, predOut, pc, inFlight, btnDisabled, status, matrix, enrichedData, marketStatus, prep, prediction, request, fetches, matrixPromise>>

\* The variables of a part that a specification does not exercise.
MathIdle == mathPc = "idle" /\ prices = <<>> /\ period = 1 /\ mathOut = <<>>
PatIdle == patPc = "idle" /\ patIn = <<>> /\ patOut = <<>>
PredIdle == predPc = "idle" /\ predIn = <<>> /\ predOut = <<>>

NoLocals ==
    /\ matrix = [fetched |-> FALSE]
    /\ enrichedData = <<>>
    /\ marketStatus = [computed |-> FALSE]
    /\ prep = [called |-> FALSE]
    /\ prediction = [made |-> FALSE]

MainIdle == pc = "idle" /\ inFlight = 0 /\ btnDisabled = FALSE /\ status = "" /\ NoLocals
DataIdle == request = <<>> /\ fetches = <<>> /\ matrixPromise = <<>>

\* ------------------------------------------------------------------ MathPro calls
InitMath ==
    /\ mathPc = "input"
    /\ \E shape \in Shapes, n \in 0..MaxLen : prices = PriceSeries(shape, n)
    /\ period \in 1..MaxPeriod
    /\ mathOut = <<>>
    /\ PatIdle /\ PredIdle /\ MainIdle /\ DataIdle

CallEMA ==
    /\ mathPc = "input"
    /\ mathPc' = "calculateEMA"
    /\ mathOut' = calculateEMA(prices, period)
    /\ UNCHANGED <<prices, period, patVars, predVars, mainVars, dataVars>>

CallMACD ==
    /\ mathPc = "input"
    /\ mathPc' = "calculateMACD"
    /\ mathOut' = calculateMACD(prices)
    /\ UNCHANGED <<prices, period, patVars, predVars, mainVars, dataVars>>

\* calculateMACD with short periods: fast 2, slow 4 and the signal period drawn.
CallMACDWith ==
    /\ mathPc = "input"
    /\ mathPc' = "calculateMACDWith"
    /\ mathOut' = calculateMACDWith(prices, 2, 4, period)
    /\ UNCHANGED <<prices, period, patVars, predVars, mainVars, dataVars>>

CallBollinger ==
    /\ mathPc = "input"
    /\ mathPc' = "calculateBollingerBands"
    /\ mathOut' = calculateBollingerBands(prices)
    /\ UNCHANGED <<prices, period, patVars, predVars, mainVars, dataVars>>

CallStatus ==
    /\ mathPc = "input"
    /\ mathPc' = "generateMarketStatus"
    /\ mathOut' = generateMarketStatus(prices)
    /\ UNCHANGED <<prices, period, patVars, predVars, mainVars, dataVars>>

NextMath == CallEMA \/ CallMACD \/ CallMACDWith \/ CallBollinger \/ CallStatus

SpecMath == InitMath /\ [][NextMath]_vars

\* ------------------------------------------------------------------ PatternEngine calls
InitPattern ==
    /\ patPc = "input"
    /\ patIn \in {<<>>} \cup {<<c>> : c \in GridCandles}
                 \cup {<<p, c>> : p \in GridBodies, c \in GridCandles}
    /\ patOut = <<>>
    /\ MathIdle /\ PredIdle /\ MainIdle /\ DataIdle

CallAnalyze ==
    /\ patPc = "input"
    /\ patPc' = "analyze"
    /\ patOut' = analyze(patIn)
    /\ UNCHANGED <<patIn, mathVars, predVars, mainVars, dataVars>>

NextPattern == CallAnalyze

SpecPattern == InitPattern /\ [][NextPattern]_vars

\* ------------------------------------------------------------------ BrainEngine.predict calls
\* The window's last close is half-way between minClose and maxClose.
PredictInputs ==
    {[normalizedPrediction |-> p,
      lastWindow |-> <<<<Rat(40 * Paise, 80 * Paise)>>>>,
      minClose |-> Num(BasePrice), maxClose |-> Num(BasePrice + 80 * Paise),
      finalLoss |-> l, recentPattern |-> [name |-> "pattern", score |-> sc],
      sentiment |-> se] :
        p \in {Rat(1, 4), Rat(3, 4)},
        l \in (0..MaxLoss) \cup {1000 * ConfUnit, 1000 * 1000 * ConfUnit},
        sc \in {-10, -8, -6, 0, 6, 8, 10},
        se \in {-100, -21, -20, 0, 15, 20, 21, 100}}

InitPredict ==
    /\ predPc = "input"
    /\ predIn \in PredictInputs
    /\ predOut = <<>>
    /\ MathIdle /\ PatIdle /\ MainIdle /\ DataIdle

CallPredict ==
    /\ predPc = "input"
    /\ predPc' = "predict"
    /\ predOut' = predict(predIn.normalizedPrediction, predIn.lastWindow, predIn.minClose,
                          predIn.maxClose, predIn.finalLoss, predIn.recentPattern,
                          predIn.sentiment)
    /\ UNCHANGED <<predIn, mathVars, patVars, mainVars, dataVars>>

NextPredict == CallPredict

SpecPredict == InitPredict /\ [][NextPredict]_vars

\* ------------------------------------------------------------------ data-engine.js
\* A promise is [state, value]: pending, fulfilled with a value, or rejected.
Pending == [state |-> "pending"]
Fulfilled(value) == [state |-> "fulfilled", value |-> value]
Rejected(message) == [state |-> "rejected", value |-> message]

\* What the candle request can come back with: a network or format failure, or a
\* history of candles.
CandleResponses ==
    {[ok |-> FALSE]} \cup {[ok |-> TRUE, ohlcv |-> Ohlcv(shape, n)] :
                               shape \in {"up", "zig"}, n \in {0, 1, 12}}

\* fetchSwingData / fetchIntradayData: the candles, or a thrown Error.
fetchCandles(isIntraday, response) ==
    IF response.ok THEN Fulfilled(response.ohlcv)
    ELSE IF isIntraday
    THEN Rejected("Could not bypass Yahoo API restrictions. Try again in 60 seconds.")
    ELSE Rejected("Alpha Vantage API limit reached or invalid ticker.")

\* What the news request can come back with: a failure (network, or a body that is
\* not the expected JSON), or a feed of articles; an article either carries a score
\* for the ticker, in hundredths, or does not mention the ticker.
Articles ==
    {[mentions |-> FALSE, score |-> 0]} \cup {[mentions |-> TRUE, score |-> sc] : sc \in {-50, 30}}
NewsFeeds ==
    {<<>>} \cup {<<a>> : a \in Articles} \cup {<<a, b>> : a \in Articles, b \in Articles}
NewsResponses == {[ok |-> FALSE]} \cup {[ok |-> TRUE, feed |-> f] : f \in NewsFeeds}

\* The fallback sentiment 0.15 and the fallback rate 83.00, in hundredths.
SentimentFallback == 15
UsdFallback == 8300

\* The forEach of fetchNewsSentiment: total and count of the articles on the ticker.
Matching(feed) == SelectSeq(feed, LAMBDA article : article.mentions)
TotalSentiment(feed) ==
    For(LAMBDA i, total : total + Matching(feed)[i + 1].score, 0, Len(Matching(feed)), 0)

\* A fetchNewsSentiment without its catch.
fetchNewsSentimentUncaught(response) ==
    IF ~response.ok THEN Rejected("Failed to fetch")
    ELSE IF Len(Matching(response.feed)) > 0
    THEN Fulfilled(TotalSentiment(response.feed) \div Len(Matching(response.feed)))
    ELSE Fulfilled(SentimentFallback)

\* fetchNewsSentiment: the mean score, 0.15 without a matching article or on failure.
fetchNewsSentiment(response) ==
    IF ~response.ok THEN Fulfilled(SentimentFallback)
    ELSE IF Len(Matching(response.feed)) > 0
    THEN Fulfilled(TotalSentiment(response.feed) \div Len(Matching(response.feed)))
    ELSE Fulfilled(SentimentFallback)

\* What the macro request can come back with: a failure, or the market price.
MacroResponses == {[ok |-> FALSE], [ok |-> TRUE, price |-> 8445]}

\* fetchMacroEnvironment: the price, 83.00 on failure.
fetchMacroEnvironment(response) ==
    IF response.ok THEN Fulfilled(response.price) ELSE Fulfilled(UsdFallback)

\* Promise.all over the three promises, then the return or the catch of
\* getMarketMatrix: once settled the promise stays as it is.
getMarketMatrix(isIntraday, f, settled) ==
    IF settled.state # "pending" THEN settled
    ELSE IF \E k \in DOMAIN f : f[k].promise.state = "rejected"
    THEN LET k == CHOOSE k \in DOMAIN f : f[k].promise.state = "rejected"
         IN  Rejected(<<"Data Matrix Failure: ", f[k].promise.value>>)
    ELSE IF \A k \in DOMAIN f : f[k].promise.state = "fulfilled"
    THEN Fulfilled([mode |-> IF isIntraday THEN "INTRADAY" ELSE "SWING",
                    ohlcv |-> f.candles.promise.value,
                    sentiment |-> f.news.promise.value,
                    usdInr |-> f.macro.promise.value])
    ELSE Pending

\* ------------------------------------------------------------------ getMarketMatrix calls
InitMatrix ==
    /\ request \in [isIntraday : BOOLEAN]
    /\ fetches = [candles |-> [promise |-> Pending],
                  news |-> [promise |-> Pending],
                  macro |-> [promise |-> Pending]]
    /\ matrixPromise = Pending
    /\ MathIdle /\ PatIdle /\ PredIdle /\ MainIdle

\* One of the three requests comes back and its fetcher settles its promise.
Settled(k, promise, response) ==
    [fetches EXCEPT ![k] = [promise |-> promise, response |-> response]]

\* The candle request comes back; the continuations of Promise.all and
\* getMarketMatrix run.
CandlesSettle ==
    /\ matrixPromise # <<>>
    /\ fetches.candles.promise.state = "pending"
    /\ \E response \in CandleResponses :
          fetches' = Settled("candles", fetchCandles(request.isIntraday, response), response)
    /\ matrixPromise' = getMarketMatrix(request.isIntraday, fetches', matrixPromise)
    /\ UNCHANGED <<request, mathVars, patVars, predVars, mainVars>>

\* The news request comes back.
NewsSettle ==
    /\ matrixPromise # <<>>
    /\ fetches.news.promise.state = "pending"
    /\ \E response \in NewsResponses :
          fetches' = Settled("news", fetchNewsSentiment(response), response)
    /\ matrixPromise' = getMarketMatrix(request.isIntraday, fetches', matrixPromise)
    /\ UNCHANGED <<request, mathVars, patVars, predVars, mainVars>>

\* The macro request comes back.
MacroSettle ==
    /\ matrixPromise # <<>>
    /\ fetches.macro.promise.state = "pending"
    /\ \E response \in MacroResponses :
          fetches' = Settled("macro", fetchMacroEnvironment(response), response)
    /\ matrixPromise' = getMarketMatrix(request.isIntraday, fetches', matrixPromise)
    /\ UNCHANGED <<request, mathVars, patVars, predVars, mainVars>>

NextMatrix == CandlesSettle \/ NewsSettle \/ MacroSettle

SpecMatrix == InitMatrix /\ [][NextMatrix]_vars

\* ------------------------------------------------------------------ main.js: the click handler
TIME_STEPS == 10

Init == MainIdle /\ MathIdle /\ PatIdle /\ PredIdle /\ DataIdle

\* A catch without the finally: the button stays as it is.
FailLocked ==
    /\ status' = "System Failure"
    /\ btnDisabled' = btnDisabled
    /\ pc' = "idle"
    /\ inFlight' = inFlight - 1

\* catch and finally: the run ends in "System Failure" with the button enabled.
Fail ==
    /\ status' = "System Failure"
    /\ btnDisabled' = FALSE
    /\ pc' = "idle"
    /\ inFlight' = inFlight - 1

\* A click on the enabled button.  Without a ticker, or without an API key in swing
\* mode, the handler returns at once; else it locks the button and awaits the data.
Click ==
    /\ ~btnDisabled
    /\ \E apiKey \in {"", "KEY"}, ticker \in {"", "RELIANCE"}, isIntraday \in BOOLEAN :
          IF (apiKey = "" /\ ~isIntraday) \/ ticker = ""
          THEN UNCHANGED mainVars
          ELSE /\ btnDisabled' = TRUE
               /\ status' = "Ingesting Data"
               /\ pc' = "ingesting"
               /\ inFlight' = inFlight + 1
               /\ matrix' = [fetched |-> FALSE]
               /\ enrichedData' = <<>>
               /\ marketStatus' = [computed |-> FALSE]
               /\ prep' = [called |-> FALSE]
               /\ prediction' = [made |-> FALSE]
    /\ UNCHANGED <<mathVars, patVars, predVars, dataVars>>

\* getMarketMatrix rejects.
IngestReject ==
    /\ pc = "ingesting"
    /\ Fail
    /\ UNCHANGED <<locals, mathVars, patVars, predVars, dataVars>>

\* The handler from the resolved getMarketMatrix to the await of train, given the
\* enriched candles.
Analyse(m, enriched) ==
    /\ matrix' = m
    /\ enrichedData' = enriched
    /\ prediction' = prediction
    /\ IF Len(enriched) = 0
       THEN \* latestData is undefined: latestData.patternName is a TypeError
            /\ Fail
            /\ UNCHANGED <<marketStatus, prep>>
       ELSE /\ marketStatus' = generateMarketStatus(
                                   [j \in 1..Len(enriched) |-> Num(enriched[j].close)])
            /\ prep' = prepareTensors(enriched, m.sentiment, m.usdInr, TIME_STEPS)
            /\ IF prep'.threw
               THEN Fail
               ELSE /\ status' = "Training Neural Cortex"
                    /\ pc' = "training"
                    /\ UNCHANGED <<inFlight, btnDisabled>>

\* getMarketMatrix resolves.
IngestResolve ==
    /\ pc = "ingesting"
    /\ \E shape \in Shapes, n \in 0..MaxLen, sentiment \in Sentiments, usdInr \in UsdRates :
          Analyse([fetched |-> TRUE, ohlcv |-> Ohlcv(shape, n), sentiment |-> sentiment,
                   usdInr |-> usdInr],
                  enrichDataset(Ohlcv(shape, n)))
    /\ UNCHANGED <<mathVars, patVars, predVars, dataVars>>

\* model.fit rejects.
TrainReject ==
    /\ pc = "training"
    /\ Fail
    /\ UNCHANGED <<locals, mathVars, patVars, predVars, dataVars>>

\* train resolves with the final loss (the tensors disposed of), then predict runs
\* and the result is rendered.
TrainResolve ==
    /\ pc = "training"
    /\ \E finalLoss \in Losses, normalizedPrediction \in Predictions :
          prediction' =
              [made |-> TRUE,
               result |-> predict(normalizedPrediction, prep.lastWindow, prep.minClose,
                                  prep.maxClose, finalLoss,
                                  [name |-> enrichedData[Len(enrichedData)].patternName,
                                   score |-> enrichedData[Len(enrichedData)].patternScore],
                                  matrix.sentiment)]
    /\ prep' = [prep EXCEPT !.tensorX = <<>>, !.tensorY = <<>>]
    /\ status' = "Analysis Complete"
    /\ btnDisabled' = FALSE
    /\ pc' = "idle"
    /\ inFlight' = inFlight - 1
    /\ UNCHANGED <<matrix, enrichedData, marketStatus, mathVars, patVars, predVars, dataVars>>

Next == Click \/ IngestReject \/ IngestResolve \/ TrainReject \/ TrainResolve

Spec == Init /\ [][Next]_vars

\* ------------------------------------------------------------------ claims: BrainEngine
\* C1: the confidence predict reports lies in [10, 98] for every final loss from 0 to
\* 1000, every pattern score and sentiment in [-1, 1] and either direction.
C1_ConfidenceClamped ==
    predPc = "predict" => (predOut.confidence >= 10 /\ predOut.confidence <= 98)

C1_Witness ==
    /\ predPc = "predict"
    /\ predIn.finalLoss = 0
    /\ predOut.aiIsBullish
    /\ predIn.recentPattern.score > 0
    /\ predIn.sentiment = 100
    /\ predOut.confidence = 98

\* C15 as stated: the rationale carries the high-conviction sentence exactly when the
\* reported confidence is above 80, and the low-conviction sentence exactly when the
\* reported confidence is below 50.
C15_RationaleAgreesWithReported ==
    predPc = "predict" =>
        /\ predOut.reasoning.conviction = "high" <=> predOut.confidence > 80
        /\ predOut.reasoning.conviction = "low" <=> predOut.confidence < 50

\* C16: before the clamp the confidence is max(40, 95 - loss*1000), plus 8 when the
\* direction agrees with the sign of a non-zero pattern score, minus 10 when a bullish
\* direction meets a negative score, plus 5 when the direction agrees with a sentiment
\* outside [-0.2, 0.2]; a bearish direction against a positive score, and a score of
\* 0, change nothing.
C16_ConfidenceBeforeClamp ==
    predPc = "predict" =>
        LET bullish == predIn.normalizedPrediction.n * predIn.lastWindow[1][1].d
                          > predIn.lastWindow[1][1].n * predIn.normalizedPrediction.d
            score == predIn.recentPattern.score
            base == IF 95 * ConfUnit - predIn.finalLoss > 40 * ConfUnit
                    THEN 95 * ConfUnit - predIn.finalLoss ELSE 40 * ConfUnit
            pattern == IF (bullish /\ score > 0) \/ (~bullish /\ score < 0) THEN 8 * ConfUnit
                       ELSE IF bullish /\ score < 0 THEN -10 * ConfUnit
                       ELSE 0
            news == IF \/ bullish /\ predIn.sentiment > 20
                       \/ ~bullish /\ predIn.sentiment < -20
                    THEN 5 * ConfUnit ELSE 0
        IN  /\ predOut.aiIsBullish = bullish
            /\ predOut.unclamped = base + pattern + news

\* A bearish call against a positive pattern, with agreeing news: 95 - 10 + 5.
C16_Witness ==
    /\ predPc = "predict"
    /\ ~predOut.aiIsBullish
    /\ predIn.recentPattern.score > 0
    /\ predIn.sentiment < -20
    /\ predIn.finalLoss = 10 * ConfUnit
    /\ predOut.unclamped = 90 * ConfUnit
    /\ predOut.confidence = 90

\* The normalization constants of the latest run's sentiment and macro rate.
RunSentiment == Rat(matrix.sentiment + Cent, 2 * Cent)
RunUsd == Rat(matrix.usdInr - 70 * Cent, (90 - 70) * Cent)

\* The window of TIME_STEPS feature vectors for the candles first .. first+TIME_STEPS-1.
WindowOfCandles(c, first) ==
    [j \in 1..TIME_STEPS |-> FeatureVector(c, first + j - 1, RunSentiment, RunUsd)]

\* Every window of X holds the feature vectors of the candles from its own index on.
WindowsInStartOrder(c) ==
    \A i \in 0..(Len(enrichedData) - TIME_STEPS - 1) :
        prep.tensorX[i + 1] = WindowOfCandles(c, i)

\* C2 as stated: lastWindow is the window of timeSteps feature vectors that ends at
\* the last candle (index length-1), whose target is not known.
C2_LastWindowEndsAtLastCandle ==
    (prep.called /\ ~prep.threw) =>
        /\ prep.lastWindow
              = WindowOfCandles(Scaling(enrichedData), Len(enrichedData) - TIME_STEPS)
        /\ prep.lastWindow[TIME_STEPS][1].n + prep.minClose.v
              = enrichedData[Len(enrichedData)].close

\* C3 as stated: the price predict compares the predicted price against is the close
\* of the last candle of the input sequence.
C3_ComparedWithLastClose ==
    prediction.made =>
        prediction.result.currentPrice.n
            = enrichedData[Len(enrichedData)].close * prediction.result.currentPrice.d

\* C4 as stated: for an enriched sequence of any length prepareTensors completes
\* without raising an error and returns dataset, min/max close and inference window.
C4_PrepareNeverThrows ==
    prep.called =>
        /\ ~prep.threw
        /\ IsNum(prep.minClose) /\ IsNum(prep.maxClose)
        /\ Len(prep.lastWindow) = TIME_STEPS

\* C9: for n > timeSteps candles prepareTensors builds exactly n - timeSteps windows
\* in start order; window i holds timeSteps vectors of 7 components for the candles
\* i .. i+timeSteps-1, and its target is the normalized close of candle i+timeSteps.
C9_WindowsAndTargets ==
    pc = "training" =>
        LET n == Len(enrichedData)
            lo == prep.minClose.v
            hi == prep.maxClose.v
            volumes == {enrichedData[k].volume : k \in 1..n}
            minVol == CHOOSE v \in volumes : \A w \in volumes : v <= w
        IN  /\ n > TIME_STEPS
            /\ \A k \in 1..n : lo <= enrichedData[k].close /\ enrichedData[k].close <= hi
            /\ \E k \in 1..n : enrichedData[k].close = lo
            /\ \E k \in 1..n : enrichedData[k].close = hi
            /\ Len(prep.tensorX) = n - TIME_STEPS
            /\ Len(prep.tensorY) = n - TIME_STEPS
            /\ prep.shapeX = <<n - TIME_STEPS, TIME_STEPS, 7>>
            /\ WindowsInStartOrder(Scaling(enrichedData))
            /\ \A i \in 0..(n - TIME_STEPS - 1) :
                  /\ Len(prep.tensorX[i + 1]) = TIME_STEPS
                  /\ \A j \in 0..(TIME_STEPS - 1) :
                        LET vector == prep.tensorX[i + 1][j + 1]
                            candle == enrichedData[i + j + 1]
                        IN  /\ Len(vector) = 7
                            /\ vector[1].n + lo = candle.close
                            /\ vector[2].n + minVol = candle.volume
                            /\ vector[3].n - 10 = candle.patternScore
                  /\ prep.tensorY[i + 1].n + lo = enrichedData[i + TIME_STEPS + 1].close
                  /\ prep.tensorY[i + 1].d = (IF hi = lo THEN Unit ELSE hi - lo)

C9_Witness ==
    /\ pc = "training"
    /\ Len(enrichedData) = 37
    /\ Len(prep.tensorX) = 27
    /\ prep.tensorX[27][10][1] # prep.tensorX[1][1][1]
    /\ prep.tensorY[27].n # prep.tensorY[26].n

\* The divisors of the four quotients of a feature vector of candle idx are fit: none
\* is zero, a zero spread is replaced by one, and the Bollinger feature is the neutral
\* 1/2 where the bands are absent or equal.
GuardedVector(c, vector, idx) ==
    /\ \A f \in 1..7 : vector[f].d # 0
    /\ vector[1].d = (IF c.maxClose = c.minClose THEN Unit ELSE c.maxClose.v - c.minClose.v)
    /\ vector[2].d = (IF c.maxVol = c.minVol THEN 1 ELSE c.maxVol.v - c.minVol.v)
    /\ vector[6].d = (IF c.maxHist = c.minHist THEN Unit ELSE c.maxHist.v - c.minHist.v)
    /\ (\/ At(c.upperBand, idx) = Null
        \/ At(c.lowerBand, idx) = Null
        \/ At(c.upperBand, idx) = At(c.lowerBand, idx)) => vector[7] = Rat(1, 2)

GuardedTensors(c) ==
    /\ \A i \in 0..(Len(prep.tensorX) - 1) : \A j \in 0..(TIME_STEPS - 1) :
          GuardedVector(c, prep.tensorX[i + 1][j + 1], i + j)
    /\ \A i \in 1..Len(prep.tensorY) :
          prep.tensorY[i].d = (IF c.maxClose = c.minClose THEN Unit
                               ELSE c.maxClose.v - c.minClose.v)

\* C11: no quotient of prepareTensors or analyze has a zero divisor: an equal max and
\* min of close, volume or defined histogram gives the divisor 1, absent or equal
\* Bollinger bands give the feature 0.5, and a candle with high = low has range 1.
C11_NoZeroDivisor ==
    pc = "training" =>
        /\ GuardedTensors(Scaling(enrichedData))
        /\ \A k \in 1..Len(matrix.ohlcv) :
              /\ TotalRange(matrix.ohlcv[k]) # 0
              /\ matrix.ohlcv[k].high = matrix.ohlcv[k].low =>
                    /\ TotalRange(matrix.ohlcv[k]) = Unit
                    /\ k > 1 => enrichedData[k].patternName = "Doji (Indecision)"

\* A flat history: closes, volumes and histogram all without spread, a candle with
\* high = low, and 34 candles so that the histogram is defined.
C11_Witness ==
    /\ pc = "training"
    /\ Len(enrichedData) >= 34
    /\ \A k \in 1..Len(enrichedData) : enrichedData[k].close = enrichedData[1].close
    /\ \A k \in 1..Len(enrichedData) : enrichedData[k].volume = enrichedData[1].volume
    /\ matrix.ohlcv[4].high = matrix.ohlcv[4].low
    /\ prep.tensorX[1][1][1] = Rat(0, Unit)
    /\ prep.tensorX[24][10][6] = Rat(0, Unit)
    /\ prep.tensorX[24][10][7] = Rat(1, 2)

\* C17 as stated: in every feature vector prepareTensors emits, the normalized
\* histogram component lies in [0, 1], also at the warm-up indices where the absent
\* histogram is replaced by 0 and scaled with the min and max of the defined values.
C17_HistogramFeatureInUnitRange ==
    pc = "training" =>
        \A i \in 1..Len(prep.tensorX) : \A j \in 1..TIME_STEPS :
            /\ prep.tensorX[i][j][6].d > 0
            /\ 0 <= prep.tensorX[i][j][6].n
            /\ prep.tensorX[i][j][6].n <= prep.tensorX[i][j][6].d

\* ------------------------------------------------------------------ claims: main.js
\* C18: the button is disabled exactly while a run of the handler is in flight: a
\* click that passes validation disables it before the first await, the end of the
\* run enables it whether the run completed or threw, so at most one run is in flight
\* and no run leaves the button disabled.
C18_DisabledExactlyWhileInFlight ==
    /\ inFlight \in {0, 1}
    /\ btnDisabled <=> inFlight = 1
    /\ btnDisabled <=> pc \in {"ingesting", "training"}
    /\ ~btnDisabled <=> pc = "idle"

\* A run that threw in prepareTensors has ended with the button enabled.
C18_Witness ==
    /\ pc = "idle"
    /\ prep.called /\ prep.threw
    /\ status = "System Failure"
    /\ inFlight = 0
    /\ ~btnDisabled

\* ------------------------------------------------------------------ claims: data engine
\* All three requests have come back.
AllSettled == \A k \in DOMAIN fetches : fetches[k].promise.state # "pending"

\* C13: getMarketMatrix rejects exactly when the candle fetch fails, and resolves once
\* the candle fetch has succeeded and the other two requests have come back, however
\* they came back: a failed news request or a feed without a matching article gives
\* sentiment 0.15, a failed macro request gives the rate 83.
C13_RejectsOnlyWithCandles ==
    matrixPromise # <<>> =>
        /\ matrixPromise.state = "rejected" <=> fetches.candles.promise.state = "rejected"
        /\ (fetches.candles.promise.state = "fulfilled" /\ AllSettled) =>
              /\ matrixPromise.state = "fulfilled"
              /\ matrixPromise.value.ohlcv = fetches.candles.response.ohlcv
              /\ (\/ ~fetches.news.response.ok
                  \/ \A i \in 1..Len(fetches.news.response.feed) :
                        ~fetches.news.response.feed[i].mentions)
                    => matrixPromise.value.sentiment = 15
              /\ ~fetches.macro.response.ok => matrixPromise.value.usdInr = 8300
              /\ fetches.macro.response.ok =>
                    matrixPromise.value.usdInr = fetches.macro.response.price
        /\ ~AllSettled => matrixPromise.state # "fulfilled"

C13_Witness ==
    /\ matrixPromise # <<>>
    /\ AllSettled
    /\ fetches.candles.response.ok
    /\ ~fetches.news.response.ok
    /\ ~fetches.macro.response.ok
    /\ matrixPromise.state = "fulfilled"
    /\ matrixPromise.value.sentiment = 15
    /\ matrixPromise.value.usdInr = 8300

\* ------------------------------------------------------------------ claims: PatternEngine
\* The candle of the pattern-priority example: open 100, close 100.1, high 100.2, low 99.9.
ExampleCandle(c) ==
    /\ c.open = 100 * Unit
    /\ c.close = 100 * Unit + 10 * Paise
    /\ c.high = 100 * Unit + 20 * Paise
    /\ c.low = 100 * Unit - 10 * Paise

ExampleAnalyzed ==
    /\ patPc = "analyze"
    /\ Len(patIn) >= 2
    /\ ExampleCandle(patIn[Len(patIn)])

\* C5 as stated: analyze returns the Doji pattern with score 0 for the example
\* candle, whatever the previous candle is.
C5_ExampleIsDoji ==
    ExampleAnalyzed => patOut = [name |-> "Doji (Indecision)", score |-> 0]

\* C5 amended: the example candle's body (0.1) is a third of its range (0.3), so
\* analyze never returns Doji for it; it returns "Standard Price Action" with score 0,
\* unless the previous candle is not bullish and its open and close lie strictly
\* inside the example's body (100 < close <= open < 100.1), and then it returns
\* "Bullish Engulfing" with score 1.0.
C5_ExampleIsStandardOrEngulfing ==
    ExampleAnalyzed =>
        LET previous == patIn[Len(patIn) - 1]
            inside == /\ 100 * Unit < previous.close
                      /\ previous.close <= previous.open
                      /\ previous.open < 100 * Unit + 10 * Paise
        IN  /\ patOut.name # "Doji (Indecision)"
            /\ inside => patOut = [name |-> "Bullish Engulfing", score |-> 10]
            /\ ~inside => patOut = [name |-> "Standard Price Action", score |-> 0]

C5_Witness ==
    /\ ExampleAnalyzed
    /\ patOut.name = "Standard Price Action"

\* C6 as stated: whenever analyze returns "Bullish Engulfing", the current candle is
\* bullish, the previous candle is bearish (close < open), the current close is above
\* the previous open and the current open is below the previous close.
C6_EngulfingNeedsBearishPrevious ==
    (patPc = "analyze" /\ patOut.name = "Bullish Engulfing") =>
        LET current == patIn[Len(patIn)]
            previous == patIn[Len(patIn) - 1]
        IN  /\ current.close > current.open
            /\ previous.close < previous.open
            /\ current.close > previous.open
            /\ current.open < previous.close

\* C12: enrichDataset returns as many candles as it is given, in the same order;
\* element i keeps every field of candle i and adds the name and score analyze gives
\* for candles i-1 and i alone ("Insufficient Data" and 0 for i = 0); the candles it
\* was given are left as they were, and every score is in [-1, 1].
C12_EnrichmentIsAdditive ==
    matrix.fetched =>
        /\ Len(enrichedData) = Len(matrix.ohlcv)
        /\ \E shape \in Shapes : matrix.ohlcv = Ohlcv(shape, Len(enrichedData))
        /\ \A k \in 1..Len(enrichedData) :
              LET pattern == IF k = 1 THEN [name |-> "Insufficient Data", score |-> 0]
                             ELSE analyze(<<matrix.ohlcv[k - 1], matrix.ohlcv[k]>>)
              IN  /\ DOMAIN enrichedData[k]
                        = DOMAIN matrix.ohlcv[k] \cup {"patternName", "patternScore"}
                  /\ \A f \in DOMAIN matrix.ohlcv[k] :
                        enrichedData[k][f] = matrix.ohlcv[k][f]
                  /\ enrichedData[k].patternName = pattern.name
                  /\ enrichedData[k].patternScore = pattern.score
                  /\ enrichedData[k].patternScore \in (-10)..10

C12_Witness ==
    /\ matrix.fetched
    /\ Len(enrichedData) = 37
    /\ enrichedData[1].patternName = "Insufficient Data"
    /\ \E k \in 2..37 : enrichedData[k].patternScore = 6
    /\ \E k \in 2..37 : enrichedData[k].patternScore = -6
    /\ \E k \in 2..37 : enrichedData[k].patternName = "Doji (Indecision)"

\* ------------------------------------------------------------------ claims: MathPro
\* C7 as stated: for every series and every period >= 1, also a series shorter than
\* the period, calculateEMA returns a series as long as its input, absent before
\* index period-1 and defined from index period-1 on.
C7_EmaAlignedForEveryLength ==
    mathPc = "calculateEMA" =>
        /\ Len(mathOut) = Len(prices)
        /\ \A i \in 0..(Len(mathOut) - 1) :
              IF i < period - 1 THEN At(mathOut, i) = Null ELSE IsNum(At(mathOut, i))

\* C8: calculateMACD with the default periods returns macdLine, signalLine and
\* histogram as long as the prices; the histogram is absent at every index below 33
\* and defined at every index from 33 on.
C8_MacdSeriesAligned ==
    mathPc = "calculateMACD" =>
        /\ Len(mathOut.macdLine) = Len(prices)
        /\ Len(mathOut.signalLine) = Len(prices)
        /\ Len(mathOut.histogram) = Len(prices)
        /\ \A i \in 0..(Len(prices) - 1) :
              IF i < (26 - 1) + (9 - 1) THEN At(mathOut.histogram, i) = Null
              ELSE IsNum(At(mathOut.histogram, i))

C8_Witness ==
    /\ mathPc = "calculateMACD"
    /\ Len(prices) >= 35
    /\ At(mathOut.histogram, 32) = Null
    /\ IsNum(At(mathOut.histogram, 33))
    /\ At(mathOut.histogram, 34).v # 0

\* The signal line and histogram of macd are the signal-period EMA of the compacted
\* macdLine, moved back onto the time axis by slowPeriod - 1.
SignalAligned(macd, slowPeriod, signalPeriod) ==
    LET compacted == SelectSeq(macd.macdLine, LAMBDA val : val # Null)
        signal == calculateEMA(compacted, signalPeriod)
    IN  \A i \in (slowPeriod - 1 + signalPeriod - 1)..(Len(prices) - 1) :
            /\ IsNum(At(macd.signalLine, i))
            /\ At(macd.signalLine, i) = At(signal, i - (slowPeriod - 1))
            /\ At(macd.histogram, i) = Sub(At(macd.macdLine, i), At(signal, i - (slowPeriod - 1)))

\* C14: in calculateMACD, at every index i >= slow-1+signal-1 the signal line is the
\* signal-period EMA of the compacted macdLine at compacted position i-(slow-1), and
\* the histogram is macdLine[i] minus that value.
C14_SignalMappedByOffset ==
    /\ mathPc = "calculateMACD" => SignalAligned(mathOut, 26, 9)
    /\ mathPc = "calculateMACDWith" => SignalAligned(mathOut, 4, period)

C14_Witness ==
    /\ mathPc = "calculateMACDWith"
    /\ period = 3
    /\ Len(prices) = 37
    /\ At(mathOut.signalLine, 4) = Null
    /\ IsNum(At(mathOut.signalLine, 5))
    /\ At(mathOut.signalLine, 35) # At(mathOut.signalLine, 36)
    /\ At(mathOut.histogram, 36).v # 0

\* C10: generateMarketStatus returns "Insufficient Data" for both fields exactly when
\* it is given fewer than 35 prices; from 35 prices on neither field is "Insufficient
\* Data" and the six values it compares (the last two of macdLine and of signalLine,
\* the final upper and lower band) are all defined numbers.
C10_StatusNeedsThirtyFive ==
    mathPc = "generateMarketStatus" =>
        /\ (Len(prices) < 35) <=> (/\ mathOut.macdStatus = "Insufficient Data"
                                   /\ mathOut.bbStatus = "Insufficient Data")
        /\ Len(prices) >= 35 =>
              /\ mathOut.macdStatus # "Insufficient Data"
              /\ mathOut.bbStatus # "Insufficient Data"
              /\ Len(mathOut.compared) = 6
              /\ \A j \in 1..Len(mathOut.compared) : IsNum(mathOut.compared[j])

C10_Witness ==
    /\ mathPc = "generateMarketStatus"
    /\ Len(prices) = 35
    /\ mathOut.macdStatus = "Bullish Momentum"
    /\ mathOut.bbStatus = "In Range"

====
